---- MODULE Spec2Model ----
(***************************************************************************)
(* MomentumTrader: the TradingBot loop (Logic/trading_bot.py), the wallet  *)
(* ledger (Logic/wallet.py) and the part of the OKX client the loop calls  *)
(* (Clients/okx_client.py), as a state machine.                            *)
(*                                                                         *)
(* Numbers.  Prices are integers in cents, sizes and base balances are     *)
(* integers in units of the exchange's minimum size, quote balances are in *)
(* (minimum size x cent).  Fractions of config.py are fixed-point integers *)
(* over Scale (0.01 is 100/Scale).  round(x, 2) is RoundDiv.               *)
(***************************************************************************)
EXTENDS Integers, Sequences, FiniteSets, Bags, TLC

\* ------------------------------------------------------------------ bounds
\* The exchange issues order ids 1..MaxOrderId and rejects placements after.
MaxOrderId == 3

\* The prices the ticker and the fills may show, in cents.
Prices == {98, 102}
\* What a balance query may answer (0 is also the answer of a failed query):
\* base for a sell of up to three times order_start_size, quote for a buy
\* of up to four times order_start_size, or none.
BtcBalances == {0, 200}
UsdtBalances == {0, 30000}
\* The fill times the exchange may report (second resolution, ties possible).
FillTimes == {1, 2}
\* The ticker may also show an outlier.
TickerPrices == Prices \cup {300}

\* --------------------------------------------------------------- constants
Scale == 100 * 100
NOT_ENOUGH_BALANCE == -55
price_movement_threshold == 100
price_adjustment_offset == 10
price_validation_threshold == 12000
maker_fee_rate == 8
taker_fee_rate == 10
order_size_factor == 65
max_order_size_multiplier == 6
min_size == 1
\* fill_time_ms default of _check_order_status ('2111-01-01 00:00:00 UTC'):
\* later than every fill time the exchange reports.
DefaultFillTime == 2111

order_start_size == order_size_factor * min_size

VARIABLES
    pc,                 \* where the process is
    last_price, buy_size_btc, sell_size_btc, buy_order_id, sell_order_id,
    current_btc, current_usdt,      \* WalletManager balances
    balance_answer,                 \* what the last balance query returned
    order_log,                      \* the rows of orders.csv: a bag of order ids
    current_price, is_extreme, buy_result, sell_result, orders,  \* locals of a cycle
    calls,                          \* gateway calls made in the cycle so far
    exchange_orders, next_order_id, \* the exchange's order book for the account
    file_exists, params_file,       \* params.json
    open_sinks,                     \* the log files the process holds open
    now,                            \* minutes on the clock at the last observation
    price_history, momentum_history, current_momentum

botVars == <<last_price, buy_size_btc, sell_size_btc, buy_order_id, sell_order_id>>
walletVars == <<current_btc, current_usdt, balance_answer, order_log>>
cycleVars == <<current_price, is_extreme, buy_result, sell_result, orders, calls>>
exchVars == <<exchange_orders, next_order_id>>
fileVars == <<file_exists, params_file, open_sinks>>
momentumVars == <<now, price_history, momentum_history, current_momentum>>
vars == <<pc, botVars, walletVars, cycleVars, exchVars, fileVars, momentumVars>>

\* ----------------------------------------------------------------- helpers
Min(a, b) == IF a <= b THEN a ELSE b
Max(a, b) == IF a >= b THEN a ELSE b
Abs(a) == IF a >= 0 THEN a ELSE -a

\* round(n / d) to the nearest integer, ties to even (Python's round).
RoundDiv(n, d) ==
    LET q == n \div d
        r == n % d
    IN  IF 2 * r < d THEN q
        ELSE IF 2 * r > d THEN q + 1
        ELSE q + (q % 2)

\* A JSON object is a set of <<key, value>> pairs.
HasKey(obj, k) == \E p \in obj : p[1] = k
DictGet(obj, k, default) ==
    IF HasKey(obj, k) THEN (CHOOSE p \in obj : p[1] = k)[2] ELSE default

\* TradingBot._save_runtime_params: the object written to params.json.
RuntimeParams(lp, bs, ss, bid, sid) ==
    { <<"last_price", lp>>, <<"buy_size_btc", bs>>, <<"sell_size_btc", ss>>,
      <<"buy_order_id", bid>>, <<"sell_order_id", sid>> }

\* OrderExecutionResult (executed_size is not modelled: nothing reads it
\* but the order log).
Result(status, id, price, side, ft) ==
    [order_status |-> status, executed_order_id |-> id, executed_price |-> price,
     executed_side |-> side, fill_time_ms |-> ft]
NoResult == Result("NONE", 0, 0, "", 0)

LoopPcs == {"fetch", "reconcile_buy", "reconcile_sell", "apply", "place", "limits", "sleep"}

\* The ids of the orders the exchange lists as pending (get_open_orders).
PendingIds(book) == {o.id : o \in book}

\* The params.json files the operator may have left before the first start.
InitFiles ==
    { {},
      RuntimeParams(100, 2 * order_start_size, order_start_size, 3, 4),
      RuntimeParams(100, 2 * order_start_size, order_start_size, 3, 4)
          \ {<<"last_price", 100>>} }

InitProcess ==
    /\ pc = "off"
    /\ last_price = 0
    /\ buy_size_btc = 0
    /\ sell_size_btc = 0
    /\ buy_order_id = 0
    /\ sell_order_id = 0
    /\ current_btc = 0
    /\ current_usdt = 0
    /\ balance_answer = <<0, 0>>
    /\ order_log = EmptyBag
    /\ current_price = 0
    /\ is_extreme = FALSE
    /\ buy_result = NoResult
    /\ sell_result = NoResult
    /\ orders = <<>>
    /\ calls = <<>>
    /\ exchange_orders = {}
    /\ next_order_id = 1
    /\ file_exists \in BOOLEAN
    /\ params_file \in (IF file_exists THEN InitFiles ELSE {{}})
    /\ open_sinks = {}

\* Before the process starts: nothing in memory, both histories empty.
Init ==
    /\ InitProcess
    /\ now = 0
    /\ price_history = <<>>
    /\ momentum_history = <<>>
    /\ current_momentum = [num |-> 0, den |-> 1]

\* --------------------------------------------------------------- start-up
\* TradingBot._on_start.  self.log_event is bound at line 75 of __init__,
\* after the call of _on_start at line 72, so both branches that log (no
\* file, file without last_price) raise AttributeError before they assign
\* anything.  The result is the bot's fields after the call, or raised.
OnStart(default_buy_size_btc, default_sell_size_btc) ==
    IF file_exists /\ HasKey(params_file, "last_price")
    THEN [raised |-> FALSE,
          last_price |-> DictGet(params_file, "last_price", 0),
          buy_size_btc |-> DictGet(params_file, "buy_size_btc", default_buy_size_btc),
          sell_size_btc |-> DictGet(params_file, "sell_size_btc", default_sell_size_btc),
          buy_order_id |-> DictGet(params_file, "buy_order_id", 0),
          sell_order_id |-> DictGet(params_file, "sell_order_id", 0)]
    ELSE [raised |-> TRUE, last_price |-> 0, buy_size_btc |-> 0, sell_size_btc |-> 0,
          buy_order_id |-> 0, sell_order_id |-> 0]

\* TradingBot.__init__ after _on_start returned s: lines 82-85 assign the
\* order ids and the sizes again.
InitFields(s) ==
    [s EXCEPT !.buy_order_id = 0, !.sell_order_id = 0,
              !.buy_size_btc = order_start_size, !.sell_size_btc = order_start_size]

\* TradingBot.__init__: the wallet takes the balances the exchange answers
\* and opens orders.csv (WalletManager.__init__ line 35), _on_start reads
\* params.json, line 77 opens price_data.csv, lines 82-85 follow.
Construct ==
    /\ UNCHANGED momentumVars
    /\ \E btc \in BtcBalances, usdt \in UsdtBalances :
          /\ current_btc' = btc
          /\ current_usdt' = usdt
          /\ balance_answer' = <<btc, usdt>>
    /\ LET s == OnStart(order_start_size, order_start_size)
           f == IF s.raised THEN s ELSE InitFields(s)
       IN  /\ pc' = IF s.raised THEN "init_error" ELSE "constructed"
           /\ last_price' = f.last_price
           /\ buy_size_btc' = f.buy_size_btc
           /\ sell_size_btc' = f.sell_size_btc
           /\ buy_order_id' = f.buy_order_id
           /\ sell_order_id' = f.sell_order_id
    /\ current_price' = 0
    /\ is_extreme' = FALSE
    /\ buy_result' = NoResult
    /\ sell_result' = NoResult
    /\ orders' = <<>>
    /\ calls' = <<>>
    /\ open_sinks' = IF OnStart(order_start_size, order_start_size).raised
                     THEN {"order_logger"}
                     ELSE {"order_logger", "price_logger"}
    /\ UNCHANGED <<order_log, exchVars, file_exists, params_file>>

\* __main__.main: the first start of the process.
Start ==
    /\ pc = "off"
    /\ Construct

\* The operator starts the process again after it ended.  The memory of the
\* previous process is gone; params.json, orders.csv and the orders resting
\* on the exchange are what is left of it.
Restart ==
    /\ pc \in {"init_error", "stopped", "crashed"}
    /\ Construct

\* TradingBot.run entering _trade_logic.
Run ==
    /\ UNCHANGED momentumVars
    /\ pc = "constructed"
    /\ pc' = "fetch"
    /\ UNCHANGED <<botVars, walletVars, cycleVars, exchVars, fileVars>>

\* ------------------------------------------------------------ the exchange
\* exchange_orders holds the orders resting on the exchange, each with its
\* side, its id and its limit price.  An order the bot has dropped the id of can be addressed
\* by no request but through the listing of get_open_orders: such orders
\* are kept per side, under id 0 and price 0 (Dropped).  An order that fills completely
\* rests no longer.  The fill of an order the bot holds the id of is taken
\* when its status is read (StatusAnswers): no request sees it sooner.  The
\* fill of a dropped order is read by no request; it is taken between two
\* cycles (during a cycle it differs from a fill during the sleep only for
\* an order a close of the cycle cancels, and a canceled order leaves the
\* book like a filled one).
Dropped(book) == {[o EXCEPT !.id = 0, !.px = 0] : o \in book}

ExchangeFill ==
    \E o \in exchange_orders :
        /\ pc \notin LoopPcs \ {"fetch"}
        /\ o.id = 0
        /\ exchange_orders' = exchange_orders \ {o}
        /\ UNCHANGED <<pc, botVars, walletVars, cycleVars,
                       next_order_id, fileVars, momentumVars>>

\* OKXClient.close_all_orders on book, when get_open_orders answers: the
\* orders of `acked` are the cancel requests the exchange carried out
\* (cancel_order's response is not read; an error code from
\* get_open_orders gives [] and nothing is canceled: acked = {}).  A
\* canceled order rests no longer.
CloseAllOrders(book, acked) == {o \in book : o.id \notin acked}

\* OKXClient.place_order accepted by the exchange.
PlaceOrder(book, id, side, px, sz) ==
    book \cup {[id |-> id, side |-> side, px |-> px]}

\* ------------------------------------------------------------ the cycle
\* _is_valid_price letting every price through while last_price is 0.
IsValidPriceUnlessNoAnchor(price) ==
    \/ last_price = 0
    \/ Abs(price - last_price) * Scale < last_price * price_validation_threshold

\* TradingBot._is_valid_price (the fetched price is always a number here).
IsValidPrice(price) ==
    Abs(price - last_price) * Scale < last_price * price_validation_threshold

\* _trade_logic lines 158-176: fetch, validate, update the histories.  The
\* ticker answers a price or nothing; is_extreme is what
\* _is_extreme_momentum answers for the histories, here any boolean: the
\* histories themselves are followed on their own (ObservePrice).
FetchPrice ==
    /\ UNCHANGED momentumVars
    /\ pc = "fetch"
    /\ \E answered \in BOOLEAN, price \in TickerPrices, extreme \in BOOLEAN :
          IF answered /\ IsValidPrice(price)
          THEN /\ pc' = "reconcile_buy"
               /\ current_price' = price
               /\ is_extreme' = extreme
          ELSE /\ pc' = "fetch"
               /\ UNCHANGED <<current_price, is_extreme>>
    /\ UNCHANGED <<botVars, walletVars, buy_result, sell_result, orders,
                   calls, exchVars, fileVars>>

\* Lines 309-321 with a partial fill left for a later cycle.
OrderStatusOfPartialWaits(state) ==
    IF state = "filled" THEN "FILLED"
    ELSE IF state \in {"canceled", "failed"} THEN "CANCELED"
    ELSE "WAITING"

\* _check_order_status lines 309-321: the gateway's state as an OrderStatus.
OrderStatusOf(state) ==
    IF state \in {"filled", "partially_filled"} THEN "FILLED"
    ELSE IF state \in {"canceled", "failed"} THEN "CANCELED"
    ELSE "WAITING"

\* _check_order_status without the test of lines 287-295: the sentinel is
\* reported like a side that holds no order.
CheckOrderStatusSentinelAsNone(order_id, side, state, details, avgPx, fillTime) ==
    IF order_id \in {0, NOT_ENOUGH_BALANCE}
    THEN Result("CANCELED", 0, 0, "", DefaultFillTime)
    ELSE LET status == OrderStatusOf(state)
         IN  IF status = "FILLED"
             THEN Result("FILLED", order_id, avgPx, side,
                         IF details THEN fillTime ELSE DefaultFillTime)
             ELSE Result(status, 0, 0, side, DefaultFillTime)

\* _check_order_status: the result for order_id.  `state` is the state
\* OKXClient.check_order_status reports, `details` whether
\* get_order_fill_details found the trade; avgPx and fillTime are what the
\* exchange reports for a fill.
CheckOrderStatus(order_id, side, state, details, avgPx, fillTime) ==
    IF order_id = NOT_ENOUGH_BALANCE
    THEN Result("NOT_ENOUGH_BALANCE", order_id, 0, "", DefaultFillTime)
    ELSE IF order_id = 0
    THEN Result("CANCELED", 0, 0, "", DefaultFillTime)
    ELSE LET status == OrderStatusOf(state)
         IN  IF status = "FILLED"
             THEN Result("FILLED", order_id, avgPx, side,
                         IF details THEN fillTime ELSE DefaultFillTime)
             ELSE Result(status, 0, 0, side, DefaultFillTime)

\* OKXClient.check_order_status: the states it may report for order_id.  A
\* request without a data response gives "failed"; a resting order is live
\* or, when a part of it has filled, partially_filled, or it has filled
\* since it was placed; an order that rests no longer was canceled.
StatusAnswers(order_id) ==
    {"failed"} \cup
    (IF order_id \in PendingIds(exchange_orders)
     THEN {"live", "partially_filled", "filled"} ELSE {"canceled"})

\* What the exchange answers to the requests _check_order_status makes for
\* order_id: the state, whether get_order_fill_details finds the trade, the
\* average price and the fill time, and the balances.  No request is made
\* for 0 and for the sentinel, and only a fill asks for more than the state.
StatusInputs(order_id) ==
    IF order_id \in {0, NOT_ENOUGH_BALANCE}
    THEN {[state |-> "", details |-> FALSE, avgPx |-> 0, fillTime |-> 0,
           btc |-> 0, usdt |-> 0]}
    ELSE {[state |-> st, details |-> FALSE, avgPx |-> 0, fillTime |-> 0,
           btc |-> 0, usdt |-> 0] :
             st \in {x \in StatusAnswers(order_id) : OrderStatusOf(x) # "FILLED"}}
         \cup
         [state : {x \in StatusAnswers(order_id) : OrderStatusOf(x) = "FILLED"},
          details : BOOLEAN, avgPx : Prices, fillTime : FillTimes,
          btc : BtcBalances, usdt : UsdtBalances]

\* The book after the status of order_id was read as `state`.
BookAfterStatus(order_id, state) ==
    IF state = "filled"
    THEN {o \in exchange_orders : o.id # order_id} ELSE exchange_orders

\* _check_order_status without the call of update_executed_order: what the
\* exactly-once recording of fills is told apart from.
RecordFillNoLog(r, btc, usdt) ==
    IF r.order_status = "FILLED" /\ r.executed_order_id # 0
    THEN /\ file_exists' = TRUE
         /\ params_file' = RuntimeParams(last_price, buy_size_btc, sell_size_btc,
                                         buy_order_id, sell_order_id)
         /\ UNCHANGED open_sinks
         /\ balance_answer' = <<btc, usdt>>
         /\ UNCHANGED <<current_btc, current_usdt, order_log>>
    ELSE UNCHANGED <<walletVars, fileVars>>

\* _check_order_status with the balances the wallet held kept after the
\* row of the fill is written.
RecordFillKeepsBalances(r, btc, usdt) ==
    IF r.order_status = "FILLED" /\ r.executed_order_id # 0
    THEN /\ order_log' = order_log (+) SetToBag({r.executed_order_id})
         /\ balance_answer' = <<btc, usdt>>
         /\ UNCHANGED <<current_btc, current_usdt>>
         /\ file_exists' = TRUE
         /\ params_file' = RuntimeParams(last_price, buy_size_btc, sell_size_btc,
                                         buy_order_id, sell_order_id)
         /\ UNCHANGED open_sinks
    ELSE UNCHANGED <<walletVars, fileVars>>

\* _check_order_status lines 336-355 for result r: the wallet records the
\* fill with freshly queried balances (WalletManager.update_executed_order
\* writes executed_orders[order_id] and one row of orders.csv together; the
\* rows are what is kept here), then the runtime parameters are saved as
\* they are at that moment.
RecordFill(r, btc, usdt) ==
    IF r.order_status = "FILLED" /\ r.executed_order_id # 0
    THEN /\ order_log' = order_log (+) SetToBag({r.executed_order_id})
         /\ balance_answer' = <<btc, usdt>>
         /\ current_btc' = btc
         /\ current_usdt' = usdt
         /\ file_exists' = TRUE
         /\ params_file' = RuntimeParams(last_price, buy_size_btc, sell_size_btc,
                                         buy_order_id, sell_order_id)
         /\ UNCHANGED open_sinks
    ELSE UNCHANGED <<walletVars, fileVars>>

\* Lines 181-184 and 189-192 counting a fill only.
ExecutedFilledOnly(r) == r.order_status = "FILLED"

\* Whether a result counts as executed (_trade_logic lines 181-184, 189-192).
Executed(r) == r.order_status \in {"FILLED", "CANCELED"}

\* The list of lines 194-201 built without the comparison of line 198.
SortOrdersBuyFirst(b, s) ==
    (IF Executed(b) THEN <<"buy">> ELSE <<>>)
        \o (IF Executed(s) THEN <<"sell">> ELSE <<>>)

\* _trade_logic lines 194-201: the executed results in the order they are
\* applied; the list holds buy_result and sell_result themselves, named
\* here by their side.
SortOrders(b, s) ==
    LET first == IF Executed(b) THEN <<"buy">> ELSE <<>>
    IN  IF Executed(s)
        THEN IF s.fill_time_ms < b.fill_time_ms
             THEN <<"sell">> \o first ELSE first \o <<"sell">>
        ELSE first

\* A result without its price, which ApplyOrder alone reads (_trade_logic
\* line 206): what the rest of the cycle can still see of it.
AppliedResult(r) == [r EXCEPT !.executed_price = 0]

\* The gateway and file calls _check_order_status makes for order_id with
\* result r.
StatusCalls(order_id, r) ==
    (IF order_id \in {0, NOT_ENOUGH_BALANCE} THEN <<>> ELSE <<"status">>)
    \o (IF r.order_status = "FILLED" /\ r.executed_order_id # 0
        THEN <<"save">> ELSE <<>>)

\* _trade_logic lines 178-180: reconcile the buy side.
ReconcileBuy ==
    /\ UNCHANGED momentumVars
    /\ pc = "reconcile_buy"
    /\ \E in \in StatusInputs(buy_order_id) :
          LET r == CheckOrderStatus(buy_order_id, "buy", in.state, in.details,
                                    in.avgPx, in.fillTime)
          IN  /\ buy_result' = r
              /\ RecordFill(r, in.btc, in.usdt)
              /\ calls' = calls \o StatusCalls(buy_order_id, r)
              /\ exchange_orders' = BookAfterStatus(buy_order_id, in.state)
    /\ pc' = "reconcile_sell"
    /\ UNCHANGED <<botVars, current_price, is_extreme, sell_result, orders,
                   next_order_id>>

\* _trade_logic lines 186-201: reconcile the sell side and order the results.
ReconcileSell ==
    /\ UNCHANGED momentumVars
    /\ pc = "reconcile_sell"
    /\ \E in \in StatusInputs(sell_order_id) :
          LET r == CheckOrderStatus(sell_order_id, "sell", in.state, in.details,
                                    in.avgPx, in.fillTime)
          IN  /\ sell_result' = r
              /\ orders' = SortOrders(buy_result, r)
              /\ RecordFill(r, in.btc, in.usdt)
              /\ calls' = calls \o StatusCalls(sell_order_id, r)
              /\ exchange_orders' = BookAfterStatus(sell_order_id, in.state)
    /\ pc' = "apply"
    /\ UNCHANGED <<botVars, current_price, is_extreme, buy_result, next_order_id>>

\* The largest size of a side (_adjust_order_sizes lines 369, 373).
MaxSize == max_order_size_multiplier * order_start_size

\* _adjust_order_sizes without the min() of lines 369 and 373: what the
\* ceiling of the sizes is told apart from.
AdjustOrderSizesNoCap(executed_side, buy_size, sell_size) ==
    IF executed_side = "buy"
    THEN <<buy_size + buy_size, order_start_size>>
    ELSE IF executed_side = "sell"
    THEN <<order_start_size, sell_size + sell_size>>
    ELSE <<buy_size, sell_size>>

\* _adjust_order_sizes without lines 370 and 374: what the reset of the
\* opposite side is told apart from.
AdjustOrderSizesNoReset(executed_side, buy_size, sell_size) ==
    IF executed_side = "buy"
    THEN <<Min(MaxSize, buy_size + buy_size), sell_size>>
    ELSE IF executed_side = "sell"
    THEN <<buy_size, Min(MaxSize, sell_size + sell_size)>>
    ELSE <<buy_size, sell_size>>

\* _adjust_order_sizes stepping the opposite side down one doubling instead
\* of resetting it at lines 370 and 374.
AdjustOrderSizesHalvesOther(executed_side, buy_size, sell_size) ==
    IF executed_side = "buy"
    THEN <<Min(MaxSize, buy_size + buy_size), Max(order_start_size, sell_size \div 2)>>
    ELSE IF executed_side = "sell"
    THEN <<Max(order_start_size, buy_size \div 2), Min(MaxSize, sell_size + sell_size)>>
    ELSE <<buy_size, sell_size>>

\* _adjust_order_sizes: the <<buy, sell>> sizes after executed_side filled.
AdjustOrderSizes(executed_side, buy_size, sell_size) ==
    IF executed_side = "buy"
    THEN <<Min(MaxSize, buy_size + buy_size), order_start_size>>
    ELSE IF executed_side = "sell"
    THEN <<order_start_size, Min(MaxSize, sell_size + sell_size)>>
    ELSE <<buy_size, sell_size>>

\* _trade_logic line 204 without its test: what the frame of last_price is
\* told apart from.
ShouldApplyAlways(order) == TRUE

\* _trade_logic line 204: whether a result changes the sizes and last_price.
ShouldApply(order) == order.executed_order_id # 0

\* _trade_logic line 203: the result the loop over `orders` takes next.
HeadOrder == IF Head(orders) = "buy" THEN buy_result ELSE sell_result

\* _trade_logic lines 203-206: one turn of the loop over the executed results.
ApplyOrder ==
    /\ UNCHANGED momentumVars
    /\ pc = "apply"
    /\ orders # <<>>
    /\ LET order == HeadOrder
       IN  IF ShouldApply(order)
           THEN LET sizes == AdjustOrderSizes(order.executed_side, buy_size_btc,
                                              sell_size_btc)
                IN  /\ buy_size_btc' = sizes[1]
                    /\ sell_size_btc' = sizes[2]
                    /\ last_price' = order.executed_price
           ELSE UNCHANGED <<buy_size_btc, sell_size_btc, last_price>>
    /\ orders' = Tail(orders)
    /\ buy_result' = IF Head(orders) = "buy" THEN AppliedResult(buy_result) ELSE buy_result
    /\ sell_result' = IF Head(orders) = "sell" THEN AppliedResult(sell_result) ELSE sell_result
    /\ UNCHANGED <<pc, buy_order_id, sell_order_id, walletVars, current_price,
                   is_extreme, calls, exchVars, fileVars>>

\* The process is gone and its memory with it; orders.csv, params.json and
\* the orders resting on the exchange stay.
ProcessEnds ==
    /\ last_price' = 0
    /\ buy_size_btc' = 0
    /\ sell_size_btc' = 0
    /\ buy_order_id' = 0
    /\ sell_order_id' = 0
    /\ current_btc' = 0
    /\ current_usdt' = 0
    /\ balance_answer' = <<0, 0>>
    /\ current_price' = 0
    /\ is_extreme' = FALSE
    /\ buy_result' = NoResult
    /\ sell_result' = NoResult
    /\ orders' = <<>>
    /\ calls' = <<>>
    /\ exchange_orders' = Dropped(exchange_orders)
    /\ UNCHANGED <<order_log, next_order_id>>

\* An exception no handler catches leaves _trade_logic and run: the process
\* ends without _on_close.
Crash ==
    /\ pc' = "crashed"
    /\ ProcessEnds
    /\ UNCHANGED fileVars

\* _close_open_orders clearing the buy id only.
CloseOpenOrdersKeepsSellId(acked) ==
    /\ exchange_orders' = Dropped(CloseAllOrders(exchange_orders, acked))
    /\ buy_order_id' = 0
    /\ sell_order_id' = sell_order_id

\* TradingBot._close_open_orders when the exchange answers get_open_orders:
\* the exchange carries out the cancel requests of `acked`, and both stored
\* ids are cleared whatever it did.
CloseOpenOrders(acked) ==
    /\ exchange_orders' = Dropped(CloseAllOrders(exchange_orders, acked))
    /\ buy_order_id' = 0
    /\ sell_order_id' = 0

\* The cancel requests the exchange may carry out on a close: all of the
\* pending orders, or none when get_open_orders answers an error code (it
\* then returns []).
CloseOutcomes == {PendingIds(exchange_orders), {}}

\* _trade_logic lines 208-214: close on an executed side or on extreme
\* momentum.  A get_open_orders whose request failed at the transport has
\* no 'code' key: the KeyError ends the loop (run catches KeyboardInterrupt
\* only).
Decide ==
    /\ UNCHANGED momentumVars
    /\ pc = "apply"
    /\ orders = <<>>
    /\ LET executed == Executed(buy_result) \/ Executed(sell_result)
           rest == <<last_price, buy_size_btc, sell_size_btc, walletVars,
                     current_price, is_extreme, buy_result, sell_result, orders,
                     next_order_id, fileVars>>
       IN  IF executed \/ is_extreme
           THEN \E transport_ok \in BOOLEAN :
                  IF transport_ok
                  THEN /\ \E acked \in CloseOutcomes : CloseOpenOrders(acked)
                       /\ calls' = Append(calls, "close")
                       /\ pc' = IF executed /\ ~is_extreme THEN "place" ELSE "limits"
                       /\ UNCHANGED rest
                  ELSE Crash
           ELSE /\ pc' = "limits"
                /\ UNCHANGED <<buy_order_id, sell_order_id, exchange_orders, calls>>
                /\ UNCHANGED rest

\* TradingBot.__init__ line 61: the order type the wallet is constructed
\* with.
order_type == "MAKER"

\* The commission rate of an order type (WalletManager.__init__ lines
\* 29-30: the maker rate and the taker rate it is given).
RateOf(type) == IF type = "MAKER" THEN maker_fee_rate ELSE taker_fee_rate

\* WalletManager.__init__ line 32: the rate the affordability checks use.
commission_rate == taker_fee_rate

\* check_order_size with the commission left out of both comparisons.
CheckOrderSizeNoFee(price, size_btc, side) ==
    IF side = "buy"
    THEN IF current_usdt < size_btc * price THEN 0 ELSE size_btc
    ELSE IF current_btc < size_btc THEN 0 ELSE size_btc

\* WalletManager.check_order_size with _check_buy_order / _check_sell_order.
CheckOrderSize(price, size_btc, side) ==
    IF side = "buy"
    THEN IF current_usdt * Scale < size_btc * price * (Scale + commission_rate)
         THEN 0 ELSE size_btc
    ELSE IF current_btc * Scale < size_btc * (Scale + commission_rate)
         THEN 0 ELSE size_btc

\* _set_new_orders lines 243-245: the sell price sent to the exchange (the
\* max with little_below_current_price is stored in expected_sell_size and
\* overwritten at line 246).
SellPrice(current) == RoundDiv(last_price * (Scale + price_movement_threshold), Scale)

\* _set_new_orders without the min() of line 259.
BuyPriceNoClamp(current) ==
    RoundDiv(last_price * (Scale - price_movement_threshold), Scale)

\* _set_new_orders lines 257-259: the buy price sent to the exchange.
BuyPrice(current) ==
    Min(RoundDiv(last_price * (Scale - price_movement_threshold), Scale),
        RoundDiv(current * (Scale + price_adjustment_offset), Scale))

\* Lines 251-254 and 265-268 leaving 0 on a side that was not placed.
StoredIdZeroOnFailure(placed, id) == IF placed THEN id ELSE 0

\* _set_new_orders lines 251-254 and 265-268: the id stored for a side, the
\* one place_order returned or, when it was not asked or returned nothing,
\* the sentinel.
StoredId(placed, id) == IF placed THEN id ELSE NOT_ENOUGH_BALANCE

\* _trade_logic line 211 with _set_new_orders: place a sell and then a buy.
\* sell_ok / buy_ok: whether the exchange accepts the placement when asked.
SetNewOrders ==
    /\ UNCHANGED momentumVars
    /\ pc = "place"
    /\ \E sell_ok \in BOOLEAN, buy_ok \in BOOLEAN :
         LET sell_size == CheckOrderSize(SellPrice(current_price), sell_size_btc, "sell")
             sell_placed == sell_size > 0 /\ sell_ok /\ next_order_id <= MaxOrderId
             id_after_sell == IF sell_placed THEN next_order_id + 1 ELSE next_order_id
             book_after_sell ==
                 IF sell_placed
                 THEN PlaceOrder(exchange_orders, next_order_id, "sell",
                                 SellPrice(current_price), sell_size)
                 ELSE exchange_orders
             buy_size == CheckOrderSize(BuyPrice(current_price), buy_size_btc, "buy")
             buy_placed == buy_size > 0 /\ buy_ok /\ id_after_sell <= MaxOrderId
         IN  /\ sell_order_id' = StoredId(sell_placed, next_order_id)
             /\ buy_order_id' = StoredId(buy_placed, id_after_sell)
             /\ exchange_orders' =
                    IF buy_placed
                    THEN PlaceOrder(book_after_sell, id_after_sell, "buy",
                                    BuyPrice(current_price), buy_size)
                    ELSE book_after_sell
             /\ next_order_id' = IF buy_placed THEN id_after_sell + 1 ELSE id_after_sell
             /\ calls' = calls \o (IF sell_size > 0 THEN <<"place_sell">> ELSE <<>>)
                               \o (IF buy_size > 0 THEN <<"place_buy">> ELSE <<>>)
    /\ pc' = "limits"
    /\ UNCHANGED <<last_price, buy_size_btc, sell_size_btc, walletVars, current_price,
                   is_extreme, buy_result, sell_result, orders, fileVars>>

\* _check_wallet_limits: whether the sell-side test re-anchors from lp.
SellLimitHit(order_sell_id, lp) ==
    /\ order_sell_id = NOT_ENOUGH_BALANCE
    /\ current_price * Scale > lp * (Scale + price_movement_threshold)

\* _check_wallet_limits: whether the buy-side test re-anchors from lp.
BuyLimitHit(order_buy_id, lp) ==
    /\ order_buy_id = NOT_ENOUGH_BALANCE
    /\ current_price * Scale < lp * (Scale - price_movement_threshold)

\* _trade_logic line 216 with _check_wallet_limits, called with the stored
\* ids: the sell test, then the buy test against last_price as the sell
\* test left it.  Each hit closes all orders.
CheckWalletLimits ==
    /\ UNCHANGED momentumVars
    /\ pc = "limits"
    /\ LET hit_sell == SellLimitHit(sell_order_id, last_price)
           lp1 == IF hit_sell THEN current_price ELSE last_price
           hit_buy == BuyLimitHit(buy_order_id, lp1)
           lp2 == IF hit_buy THEN current_price ELSE lp1
           closes == (IF hit_sell THEN <<"close">> ELSE <<>>)
                         \o (IF hit_buy THEN <<"close">> ELSE <<>>)
           rest == <<buy_size_btc, sell_size_btc, walletVars, current_price,
                     is_extreme, buy_result, sell_result, orders, next_order_id,
                     fileVars>>
       IN  IF hit_sell \/ hit_buy
           THEN \E transport_ok \in BOOLEAN :
                  IF transport_ok
                  THEN /\ last_price' = lp2
                       /\ \E acked \in CloseOutcomes : CloseOpenOrders(acked)
                       /\ calls' = calls \o closes
                       /\ pc' = "sleep"
                       /\ UNCHANGED rest
                  ELSE Crash
           ELSE /\ pc' = "sleep"
                /\ UNCHANGED <<last_price, buy_order_id, sell_order_id, exchange_orders,
                               calls>>
                /\ UNCHANGED rest

\* _trade_logic line 218: the cadence sleep; the next turn of the while
\* loop starts with fresh locals.
Sleep ==
    /\ UNCHANGED momentumVars
    /\ pc = "sleep"
    /\ pc' = "fetch"
    /\ current_price' = 0
    /\ is_extreme' = FALSE
    /\ buy_result' = NoResult
    /\ sell_result' = NoResult
    /\ orders' = <<>>
    /\ calls' = <<>>
    /\ UNCHANGED <<botVars, walletVars, exchVars, fileVars>>

\* TradingBot.run on KeyboardInterrupt with _on_close: the runtime
\* parameters are saved, the price log is closed (the close of the order
\* log is not called) and the process ends.
Stop ==
    /\ UNCHANGED momentumVars
    /\ pc \in LoopPcs
    /\ pc' = "stopped"
    /\ file_exists' = TRUE
    /\ params_file' = RuntimeParams(last_price, buy_size_btc, sell_size_btc,
                                    buy_order_id, sell_order_id)
    /\ open_sinks' = open_sinks \ {"price_logger"}
    /\ ProcessEnds

\* One run of the process, from its start to its end.
Next ==
    \/ Start
    \/ Run
    \/ ExchangeFill
    \/ FetchPrice
    \/ ReconcileBuy
    \/ ReconcileSell
    \/ ApplyOrder
    \/ Decide
    \/ SetNewOrders
    \/ CheckWalletLimits
    \/ Sleep
    \/ Stop

Spec == Init /\ [][Next]_vars

\* The process with the operator starting it again whenever it has ended.
NextRestart ==
    \/ Next
    \/ Restart

SpecRestart == Init /\ [][NextRestart]_vars

\* ------------------------------------------------- the momentum histories
\* TradingConfig fields of the momentum detector.  The windows and the
\* cadence are run here at 15, 30 and 5 minutes, which puts 5 samples
\* before the detector's statistics (the defaults 30, 60 and 1 put 59);
\* the clock counts minutes up to MaxTime.
momentum_lookback_window_minutes == 15
price_resolution_minutes == 5
MaxTime == 60
momentum_std_threshold == 1
momentum_history_window_minutes == 2 * momentum_lookback_window_minutes

\* The prices the ticker shows while the histories are followed from the
\* start, and the time from one observation to the next: the cadence
\* sleep, or twice that when a cycle was skipped or a request was slow.
MomentumPrices == {100, 101}
Steps == {price_resolution_minutes, 2 * price_resolution_minutes}

\* A momentum is a fraction num/den of a percent per minute, in lowest
\* terms with den > 0.
RECURSIVE Gcd(_, _)
Gcd(a, b) == IF b = 0 THEN Abs(a) ELSE Gcd(b, a % b)
Lcm(a, b) == (a \div Gcd(a, b)) * b
Frac(n, d) ==
    IF n = 0 THEN [num |-> 0, den |-> 1]
    ELSE LET g == Gcd(n, d)
             sign == IF d < 0 THEN -1 ELSE 1
         IN  [num |-> sign * (n \div g), den |-> sign * (d \div g)]

\* _add_price_to_history without the pruning of line 103.
AddPriceToHistoryNoPrune(history, price, timestamp) ==
    Append(history, [timestamp |-> timestamp, price |-> price])

\* TradingBot._add_price_to_history: append, then keep the points not older
\* than history window + lookback window.
AddPriceToHistory(history, price, timestamp) ==
    LET cutoff_time == timestamp - (momentum_history_window_minutes
                                    + momentum_lookback_window_minutes)
        Kept(p) == p.timestamp >= cutoff_time
    IN  SelectSeq(Append(history, [timestamp |-> timestamp, price |-> price]), Kept)

\* _calculate_current_momentum measuring from the most recent point of the
\* lookback window instead of the first.
CalculateCurrentMomentumFromLast(history, price, current_timestamp) ==
    LET lookback_time == current_timestamp - momentum_lookback_window_minutes
        Recent(p) == lookback_time <= p.timestamp /\ p.timestamp < current_timestamp
        recent_data == SelectSeq(history, Recent)
    IN  IF recent_data = <<>> THEN Frac(0, 1)
        ELSE LET start == recent_data[Len(recent_data)]
             IN  Frac((price - start.price) * 100,
                      start.price * (current_timestamp - start.timestamp))

\* TradingBot._calculate_current_momentum on the price history as it is
\* after the current point was added.
CalculateCurrentMomentum(history, price, current_timestamp) ==
    IF Len(history) = 0 THEN Frac(0, 1)
    ELSE LET lookback_time == current_timestamp - momentum_lookback_window_minutes
             Recent(p) == lookback_time <= p.timestamp /\ p.timestamp < current_timestamp
             recent_data == SelectSeq(history, Recent)
         IN  IF Len(recent_data) = 0 THEN Frac(0, 1)
             ELSE LET start_price == recent_data[1].price
                      time_diff == current_timestamp - recent_data[1].timestamp
                  IN  IF time_diff > 0
                      THEN Frac((price - start_price) * 100,
                                start_price * time_diff)
                      ELSE Frac(0, 1)

\* The momenta of the history that _is_extreme_momentum evaluates (line
\* 131), followed by the candidate (line 132).
RecentMomentumList(history, current_momentum_, current_timestamp) ==
    LET lookback_time == current_timestamp - momentum_history_window_minutes
        Recent(m) == m.timestamp >= lookback_time
        recent == SelectSeq(history, Recent)
    IN  [i \in 1..Len(recent) |-> recent[i].momentum] \o <<current_momentum_>>

\* Whether a list of that length is below min_required_points (line 128:
\* history window / resolution - 1, a true division).
TooFewPoints(len) ==
    len * price_resolution_minutes
        < momentum_history_window_minutes - price_resolution_minutes

RECURSIVE CommonDen(_)
CommonDen(list) ==
    IF list = <<>> THEN 1 ELSE Lcm(Head(list).den, CommonDen(Tail(list)))

RECURSIVE SumSeq(_)
SumSeq(list) == IF list = <<>> THEN 0 ELSE Head(list) + SumSeq(Tail(list))

\* Lines 137-149 on a list whose last element is the candidate: the mean
\* and the population deviation of the whole list, the band of one
\* momentum_std_threshold deviations or of 0.01 when the deviation is 0.
\* With x the list over its common denominator d, n its length, S its sum
\* and Q its sum of squares: n x (c - mean) = n c - S and
\* (n x std)^2 = n Q - S^2.
OutsideBand(list) ==
    LET d == CommonDen(list)
        x == [i \in 1..Len(list) |-> list[i].num * (d \div list[i].den)]
        n == Len(list)
        S == SumSeq(x)
        Q == SumSeq([i \in 1..n |-> x[i] * x[i]])
        dev == n * Q - S * S
        above == n * x[n] - S
    IN  IF dev > 0
        THEN \/ above > 0 /\ above * above
                               > momentum_std_threshold * momentum_std_threshold * dev
             \/ above < 0 /\ above * above
                               > momentum_std_threshold * momentum_std_threshold * dev
        ELSE \/ 100 * above > n * d
             \/ 100 * above < -(n * d)

\* _is_extreme_momentum answering before it counts the samples.
IsExtremeMomentumNoMinimum(history, current_momentum_, current_timestamp) ==
    OutsideBand(RecentMomentumList(history, current_momentum_, current_timestamp))

\* TradingBot._is_extreme_momentum.
IsExtremeMomentum(history, current_momentum_, current_timestamp) ==
    LET recent_momentum_list ==
            RecentMomentumList(history, current_momentum_, current_timestamp)
    IN  IF TooFewPoints(Len(recent_momentum_list)) THEN FALSE
        ELSE OutsideBand(recent_momentum_list)

\* TradingBot._add_momentum_to_history: append, then keep the points not
\* older than the history window.
AddMomentumToHistory(history, momentum, timestamp) ==
    LET cutoff_time == timestamp - momentum_history_window_minutes
        Kept(m) == m.timestamp >= cutoff_time
    IN  SelectSeq(Append(history, [timestamp |-> timestamp, momentum |-> momentum]),
                  Kept)

\* _trade_logic lines 172-176 for a valid price read at current_timestamp:
\* the price joins its history, the momentum is computed and judged
\* against the momentum history, then joins it.
UpdateHistories(price, current_timestamp) ==
    LET history == AddPriceToHistory(price_history, price, current_timestamp)
        momentum == CalculateCurrentMomentum(history, price, current_timestamp)
    IN  /\ now' = current_timestamp
        /\ current_price' = price
        /\ price_history' = history
        /\ current_momentum' = momentum
        /\ is_extreme' = IsExtremeMomentum(momentum_history, momentum, current_timestamp)
        /\ momentum_history' = AddMomentumToHistory(momentum_history, momentum,
                                                    current_timestamp)

\* _trade_logic lines 163-176 for a valid price read dt minutes after the
\* last one, the rest of the cycle left aside.
ObservePrice(price, dt) ==
    /\ now + dt <= MaxTime
    /\ UpdateHistories(price, now + dt)
    /\ UNCHANGED <<pc, botVars, walletVars, buy_result, sell_result, orders,
                   calls, exchVars, fileVars>>

\* The histories from the start of the loop, one observation after another.
Observe == \E price \in MomentumPrices, dt \in Steps : ObservePrice(price, dt)

InitMomentum == Init /\ ~file_exists

SpecMomentum == InitMomentum /\ [][Observe]_vars

\* The histories after a quiet market: the ticker showed one price of
\* FlatBases at each of up to MaxFlatRun observations a cadence sleep apart,
\* and then moves by one of PriceMoves (a cent, or enough for 0.02 percent
\* per minute and more).
FlatBases == {20000, 30000, 40000}
MaxFlatRun == 6
PriceMoves == {-1, 0, 1, 60}

\* The clock and the histories after k observations of price, each made
\* by lines 172-176.
RECURSIVE FlatRun(_, _)
FlatRun(k, price) ==
    IF k = 0 THEN [now |-> 0, price_history |-> <<>>, momentum_history |-> <<>>]
    ELSE LET s == FlatRun(k - 1, price)
             current_timestamp == s.now + price_resolution_minutes
             history == AddPriceToHistory(s.price_history, price, current_timestamp)
             momentum == CalculateCurrentMomentum(history, price, current_timestamp)
         IN  [now |-> current_timestamp,
              price_history |-> history,
              momentum_history |->
                  AddMomentumToHistory(s.momentum_history, momentum, current_timestamp)]

\* Whether every retained price point shows the same price.
FlatSoFar == \A i \in DOMAIN price_history : price_history[i].price = price_history[1].price

\* The next observation while the market has been quiet so far.
ObserveAfterFlat ==
    /\ price_history # <<>>
    /\ FlatSoFar
    /\ \E move \in PriceMoves, dt \in Steps :
          ObservePrice(price_history[1].price + move, dt)

InitFlat ==
    /\ InitProcess
    /\ ~file_exists
    /\ \E price \in FlatBases, k \in 1..MaxFlatRun :
          LET s == FlatRun(k, price)
          IN  /\ now = s.now
              /\ price_history = s.price_history
              /\ momentum_history = s.momentum_history
    /\ current_momentum = [num |-> 0, den |-> 1]

SpecFlat == InitFlat /\ [][ObserveAfterFlat]_vars

\* ------------------------------------------- the head of a cycle, in time
\* The loop from its first fetch on, with the clock: the head of each cycle
\* (lines 158-176) against a bot that holds a resting pair which the
\* exchange leaves waiting, so that the rest of each cycle changes nothing
\* and ends in the cadence sleep.  The clock ticks short_delay at each
\* time.sleep(10) of lines 160 and 169 (a sixth of a minute in the code)
\* and price_resolution_minutes at the sleep of line 218, up to
\* MaxFetchTime.
short_delay == 1
MaxFetchTime == 16

\* What the ticker may show there: the prices of the quiet market, 2.2
\* times the anchor of 100 (a deviation of exactly
\* price_validation_threshold) and an outlier beyond it.
FetchPrices == MomentumPrices \cup {220, 300}

\* Lines 159 and 167 without the validation of line 167.
PriceAcceptedUnvalidated(answered, price) == answered

\* _trade_logic lines 159 and 167: whether the cycle goes on with the
\* ticker's answer.
PriceAccepted(answered, price) == answered /\ IsValidPrice(price)

\* _calculate_current_momentum lines 110-120 on the price history as it is
\* after the current point was added: whether the division of line 120 is
\* by a start price of 0.  The ZeroDivisionError leaves _trade_logic and
\* run, which catches KeyboardInterrupt only.
MomentumDividesByZero(history, current_timestamp) ==
    LET lookback_time == current_timestamp - momentum_lookback_window_minutes
        Recent(p) == lookback_time <= p.timestamp /\ p.timestamp < current_timestamp
        recent_data == SelectSeq(history, Recent)
    IN  /\ Len(recent_data) > 0
        /\ current_timestamp - recent_data[1].timestamp > 0
        /\ recent_data[1].price = 0

\* _trade_logic lines 158-176 at the clock's time, the ticker showing one
\* of `tickers`: a missing or rejected price sleeps the short delay and
\* starts over, an accepted one joins the price history and, unless the
\* momentum computation raises, updates the histories and goes on to the
\* reconcile.
FetchObserveFrom(tickers) ==
    /\ pc = "fetch"
    /\ \E answered \in BOOLEAN, price \in tickers :
          IF PriceAccepted(answered, price)
          THEN IF MomentumDividesByZero(AddPriceToHistory(price_history, price, now),
                                        now)
               THEN /\ Crash
                    /\ price_history' = <<>>
                    /\ momentum_history' = <<>>
                    /\ current_momentum' = [num |-> 0, den |-> 1]
                    /\ UNCHANGED now
               ELSE /\ UpdateHistories(price, now)
                    /\ pc' = "reconcile_buy"
                    /\ UNCHANGED <<botVars, walletVars, buy_result, sell_result,
                                   orders, calls, exchVars, fileVars>>
          ELSE /\ now + short_delay <= MaxFetchTime
               /\ now' = now + short_delay
               /\ pc' = "fetch"
               /\ UNCHANGED <<current_price, is_extreme, price_history,
                              momentum_history, current_momentum>>
               /\ UNCHANGED <<botVars, walletVars, buy_result, sell_result,
                              orders, calls, exchVars, fileVars>>

\* The head of a cycle when the ticker shows one of FetchPrices.
FetchObserve == FetchObserveFrom(FetchPrices)

\* _trade_logic lines 178-218 when both status reads answer a waiting
\* order and momentum is not extreme: the reconcile of both sides, no
\* decision to take, the recovery check on gateway ids, and the cadence
\* sleep.
WaitingCycle ==
    /\ pc = "reconcile_buy"
    /\ ~is_extreme
    /\ now + price_resolution_minutes <= MaxFetchTime
    /\ now' = now + price_resolution_minutes
    /\ pc' = "fetch"
    /\ current_price' = 0
    /\ is_extreme' = FALSE
    /\ UNCHANGED <<botVars, walletVars, buy_result, sell_result, orders, calls,
                   exchVars, fileVars, price_history, momentum_history,
                   current_momentum>>

\* The bot at its fetch after a first cycle placed its pair around a
\* last_price of 100 at a ticker of 102, both histories still to begin.
InitFetch ==
    /\ pc = "fetch"
    /\ last_price = 100
    /\ buy_size_btc = order_start_size
    /\ sell_size_btc = order_start_size
    /\ sell_order_id = 1
    /\ buy_order_id = 2
    /\ current_btc = 200
    /\ current_usdt = 30000
    /\ balance_answer = <<200, 30000>>
    /\ order_log = EmptyBag
    /\ current_price = 0
    /\ is_extreme = FALSE
    /\ buy_result = NoResult
    /\ sell_result = NoResult
    /\ orders = <<>>
    /\ calls = <<>>
    /\ exchange_orders = {[id |-> 1, side |-> "sell", px |-> 101],
                          [id |-> 2, side |-> "buy", px |-> 99]}
    /\ next_order_id = 3
    /\ file_exists = TRUE
    /\ params_file = RuntimeParams(100, 2 * order_start_size, order_start_size, 3, 4)
    /\ open_sinks = {"order_logger", "price_logger"}
    /\ now = 0
    /\ price_history = <<>>
    /\ momentum_history = <<>>
    /\ current_momentum = [num |-> 0, den |-> 1]

NextFetch ==
    \/ FetchObserve
    \/ WaitingCycle

SpecFetch == InitFetch /\ [][NextFetch]_vars

\* The same head of the cycle with a ticker that may also show a last
\* price of 0: get_price returns float(response["data"][0]["last"]), and
\* only a missing price is None.
TickPrices == FetchPrices \cup {0}

FetchTick == FetchObserveFrom(TickPrices)

NextTicks ==
    \/ FetchTick
    \/ WaitingCycle

\* The bot at its first fetch after it was constructed from a params.json
\* whose last_price is 0 (_on_start line 399 takes the saved value as it
\* is): __init__ has set the ids to 0 and the sizes to order_start_size,
\* the wallet holds the balances the exchange answered, nothing rests.
InitNoAnchor ==
    /\ pc = "fetch"
    /\ last_price = 0
    /\ buy_size_btc = order_start_size
    /\ sell_size_btc = order_start_size
    /\ sell_order_id = 0
    /\ buy_order_id = 0
    /\ \E btc \in BtcBalances, usdt \in UsdtBalances :
          /\ current_btc = btc
          /\ current_usdt = usdt
          /\ balance_answer = <<btc, usdt>>
    /\ order_log = EmptyBag
    /\ current_price = 0
    /\ is_extreme = FALSE
    /\ buy_result = NoResult
    /\ sell_result = NoResult
    /\ orders = <<>>
    /\ calls = <<>>
    /\ exchange_orders = {}
    /\ next_order_id = 1
    /\ file_exists = TRUE
    /\ params_file = RuntimeParams(0, order_start_size, order_start_size, 0, 0)
    /\ open_sinks = {"order_logger", "price_logger"}
    /\ now = 0
    /\ price_history = <<>>
    /\ momentum_history = <<>>
    /\ current_momentum = [num |-> 0, den |-> 1]

InitTicks == InitFetch \/ InitNoAnchor

SpecTicks == InitTicks /\ [][NextTicks]_vars

\* ------------------------------------------------------------- properties
\* How many rows of orders.csv carry order id `id`.
Rows(id) == CopiesIn(id, order_log)

\* The resting orders of a side.
Resting(side) == {o \in exchange_orders : o.side = side}

\* The sizes k fills in a row lead to, from order_start_size.
SizeLadder ==
    {Min(2 ^ k, max_order_size_multiplier) * order_start_size : k \in 0..MaxOrderId}

\* C1: in every reachable state neither the buy size nor the sell size
\* exceeds max_order_size_multiplier x order_start_size.
SizesWithinCap ==
    /\ buy_size_btc <= max_order_size_multiplier * order_start_size
    /\ sell_size_btc <= max_order_size_multiplier * order_start_size

\* C1 happens: a third buy fill in a row was applied, 8 x order_start_size
\* was cut to the ceiling.
CapReached ==
    /\ pc = "apply"
    /\ orders = <<>>
    /\ buy_result.order_status = "FILLED"
    /\ buy_size_btc = max_order_size_multiplier * order_start_size
    /\ sell_size_btc = order_start_size

\* C2: applying a result reconciled as FILLED sets the size of its side to
\* min(2 x the size before, max_order_size_multiplier x order_start_size)
\* and the size of the opposite side to order_start_size; the sizes of a
\* running bot are therefore min(2^k, max_order_size_multiplier) x
\* order_start_size for the k fills in a row of the side.
FillDoublesSideResetsOther ==
    /\ [](pc \in LoopPcs =>
             /\ buy_size_btc \in SizeLadder
             /\ sell_size_btc \in SizeLadder)
    /\ [][(/\ pc = "apply"
           /\ pc' = "apply"
           /\ orders # <<>>
           /\ HeadOrder.order_status = "FILLED")
          => IF Head(orders) = "buy"
             THEN /\ buy_size_btc' =
                        Min(2 * buy_size_btc, max_order_size_multiplier * order_start_size)
                  /\ sell_size_btc' = order_start_size
             ELSE /\ sell_size_btc' =
                        Min(2 * sell_size_btc, max_order_size_multiplier * order_start_size)
                  /\ buy_size_btc' = order_start_size]_vars

\* C2 happens: a sell fill and a buy fill were applied in one cycle, the
\* sell first: the buy fill doubled the buy size the sell fill had reset,
\* and reset the sell size the sell fill had doubled.
BothFillsApplied ==
    /\ pc = "apply"
    /\ orders = <<>>
    /\ buy_result.order_status = "FILLED"
    /\ sell_result.order_status = "FILLED"
    /\ buy_size_btc = 2 * order_start_size
    /\ sell_size_btc = order_start_size

\* C3: at most one order per side rests on the exchange.
OneRestingOrderPerSide ==
    /\ Cardinality(Resting("buy")) <= 1
    /\ Cardinality(Resting("sell")) <= 1

\* C4: inside the loop last_price changes only (a) in the turn that applies
\* a result reconciled as FILLED, to its executed price, or (b) in the
\* recovery check, to the current price, when a side holds the sentinel and
\* the price is past price_movement_threshold from last_price.
LastPriceFrame ==
    [][(pc \in LoopPcs /\ pc' \in LoopPcs /\ last_price' # last_price)
       => \/ /\ pc = "apply"
             /\ orders # <<>>
             /\ HeadOrder.order_status = "FILLED"
             /\ last_price' = HeadOrder.executed_price
          \/ /\ pc = "limits"
             /\ last_price' = current_price
             /\ \/ /\ sell_order_id = NOT_ENOUGH_BALANCE
                   /\ current_price * Scale > last_price * (Scale + price_movement_threshold)
                \/ /\ buy_order_id = NOT_ENOUGH_BALANCE
                   /\ current_price * Scale < last_price * (Scale - price_movement_threshold)]_vars

\* C4 happens: a cycle placed its pair, a side was left with the sentinel,
\* and the recovery check moved last_price to the current price and closed
\* the orders (a close after a placement is the recovery check's).
ReanchoredOnSentinel ==
    /\ pc = "sleep"
    /\ Len(calls) >= 2
    /\ calls[Len(calls)] = "close"
    /\ calls[Len(calls) - 1] \in {"place_sell", "place_buy"}
    /\ last_price = current_price

\* C5: a cycle with momentum flagged extreme ends with no order resting, no
\* place_order call made and both stored ids 0.
ExtremeCycleClosesAll ==
    (pc = "sleep" /\ is_extreme)
    => /\ exchange_orders = {}
       /\ \A i \in 1..Len(calls) : calls[i] \notin {"place_sell", "place_buy"}
       /\ buy_order_id = 0
       /\ sell_order_id = 0

\* C6: an order id has at most one row in orders.csv over the whole run,
\* and a result reconciled as FILLED has its row from the moment it is
\* returned: in every state before and after its sizes and last_price are
\* applied and the new pair is placed.
FilledRecordedExactlyOnce ==
    /\ \A id \in 1..MaxOrderId : Rows(id) <= 1
    /\ \A r \in {buy_result, sell_result} :
          r.order_status = "FILLED" => Rows(r.executed_order_id) = 1

\* C6 happens: both sides were reconciled as FILLED in one cycle and
\* nothing of the cycle is applied yet.
BothFillsRecorded ==
    /\ pc = "apply"
    /\ Len(orders) = 2
    /\ buy_result.order_status = "FILLED"
    /\ sell_result.order_status = "FILLED"
    /\ Rows(buy_result.executed_order_id) = 1
    /\ Rows(sell_result.executed_order_id) = 1

\* C7: a bot constructed from a params.json the program saved holds the
\* saved last_price, sizes and order ids.
RestartResumesSavedState ==
    (/\ pc = "constructed"
     /\ file_exists
     /\ params_file \notin InitFiles
     /\ HasKey(params_file, "last_price"))
    => /\ last_price = DictGet(params_file, "last_price", 0)
       /\ buy_size_btc = DictGet(params_file, "buy_size_btc", 0)
       /\ sell_size_btc = DictGet(params_file, "sell_size_btc", 0)
       /\ buy_order_id = DictGet(params_file, "buy_order_id", 0)
       /\ sell_order_id = DictGet(params_file, "sell_order_id", 0)

\* C8: at the end of a cycle in which an order was reconciled as FILLED,
\* params.json holds last_price, the sizes and the order ids as they are
\* after the cycle's adjustment, close and placement.
PersistedAfterFillCycle ==
    (/\ pc = "sleep"
     /\ \E i \in 1..Len(calls) : calls[i] = "save")
    => /\ file_exists
       /\ params_file = RuntimeParams(last_price, buy_size_btc, sell_size_btc,
                                      buy_order_id, sell_order_id)

\* C9: started without a params.json, construction completes, with both
\* sizes order_start_size and both order ids 0.
ColdStartCompletes ==
    (~file_exists /\ pc \in {"constructed", "init_error"})
    => /\ pc = "constructed"
       /\ buy_size_btc = order_start_size
       /\ sell_size_btc = order_start_size
       /\ buy_order_id = 0
       /\ sell_order_id = 0

\* C10: started with a params.json that lacks last_price, construction
\* completes and the bot holds the sizes and the order ids of the file.
MissingLastPriceKeepsOtherFields ==
    (/\ pc \in {"constructed", "init_error"}
     /\ file_exists
     /\ ~HasKey(params_file, "last_price"))
    => /\ pc = "constructed"
       /\ buy_size_btc = DictGet(params_file, "buy_size_btc", order_start_size)
       /\ sell_size_btc = DictGet(params_file, "sell_size_btc", order_start_size)
       /\ buy_order_id = DictGet(params_file, "buy_order_id", 0)
       /\ sell_order_id = DictGet(params_file, "sell_order_id", 0)

\* C11: no failure of a gateway call ends the loop: from any position of
\* the loop the next step is again a position of the loop, unless the stop
\* signal arrived.
LoopEndsOnlyOnStopSignal ==
    [][(pc \in LoopPcs) => (pc' \in LoopPcs \cup {"stopped"})]_vars

\* C12: the step that takes the stop signal, at any position of the loop,
\* leaves a params.json equal to the last_price, sizes and order ids the
\* bot held in memory, and leaves none of its log files open.
StopPersistsAndClosesSinks ==
    [][(pc \in LoopPcs /\ pc' = "stopped") =>
          (/\ file_exists'
           /\ params_file' = RuntimeParams(last_price, buy_size_btc, sell_size_btc,
                                           buy_order_id, sell_order_id)
           /\ open_sinks' = {})]_vars

\* The sizes and prices check_order_size is asked about: the sizes of the
\* ladder and the prices of the ticker, and with them the size and the
\* price whose cost equals a balance the wallet may hold, where the
\* commission alone decides.
RequestedSizes == SizeLadder \cup {200, 300}
RequestedPrices == Prices \cup {100}

\* C13: whenever the loop is about to place its pair, check_order_size
\* answers 0 or the requested size, nothing between:
\* for a buy 0 exactly when the quote balance is below
\* size x price x (1 + commission_rate), for a sell 0 exactly when the base
\* balance is below size x (1 + commission_rate).
CheckOrderSizeAllOrNothing ==
    pc = "place" => \A price \in RequestedPrices, size \in RequestedSizes :
        LET buy == CheckOrderSize(price, size, "buy")
            sell == CheckOrderSize(price, size, "sell")
        IN  /\ buy \in {0, size}
            /\ sell \in {0, size}
            /\ buy = 0 <=> current_usdt * Scale < size * price * (Scale + commission_rate)
            /\ sell = 0 <=> current_btc * Scale < size * (Scale + commission_rate)

\* C13 happens: one placement refused the buy for lack of quote balance
\* and sent the sell at its requested size, with a base balance the
\* commission makes too small for a size equal to it.
OneSideAffordable ==
    /\ pc = "limits"
    /\ "place_sell" \in {calls[i] : i \in DOMAIN calls}
    /\ "place_buy" \notin {calls[i] : i \in DOMAIN calls}
    /\ buy_order_id = NOT_ENOUGH_BALANCE
    /\ current_btc \in RequestedSizes
    /\ CheckOrderSize(current_price, current_btc, "sell") = 0

\* C14: inside the loop, a step that records a fill leaves the wallet's
\* balances equal to the pair the balance query of that fill returned, and
\* a step that changes a balance of the wallet is a status read that
\* records a fill; placements and affordability checks leave both alone.
BalancesReplacedOnFillOnly ==
    [][(pc \in LoopPcs /\ pc' \in LoopPcs) =>
          (/\ (order_log' # order_log) =>
                  (<<current_btc', current_usdt'>> = balance_answer')
           /\ (<<current_btc', current_usdt'>> # <<current_btc, current_usdt>>) =>
                  (/\ pc \in {"reconcile_buy", "reconcile_sell"}
                   /\ order_log' # order_log))]_vars

\* C14 happens: a buy that only a wallet holding quote balance could place
\* was recorded as filled, and the balance query of that fill answered a
\* quote balance of 0, which the wallet now holds.
BalancesReplacedByFill ==
    /\ pc = "reconcile_sell"
    /\ buy_result.order_status = "FILLED"
    /\ Rows(buy_result.executed_order_id) = 1
    /\ current_usdt = 0
    /\ balance_answer = <<current_btc, 0>>

\* C15: after every update of the histories each retained price point is
\* at most history window + lookback window minutes older than the latest
\* one, each retained momentum point at most history window minutes older
\* than the latest one, and at the loop's cadence neither history holds
\* more points than its window has room for.
HistoriesWithinWindows ==
    /\ \A i \in DOMAIN price_history :
          /\ price_history[i].timestamp <= price_history[Len(price_history)].timestamp
          /\ price_history[i].timestamp
                 >= price_history[Len(price_history)].timestamp
                        - (momentum_history_window_minutes
                           + momentum_lookback_window_minutes)
    /\ \A i \in DOMAIN momentum_history :
          /\ momentum_history[i].timestamp
                 <= momentum_history[Len(momentum_history)].timestamp
          /\ momentum_history[i].timestamp
                 >= momentum_history[Len(momentum_history)].timestamp
                        - momentum_history_window_minutes
    /\ Len(price_history) * price_resolution_minutes
           <= momentum_history_window_minutes + momentum_lookback_window_minutes
                  + price_resolution_minutes
    /\ Len(momentum_history) * price_resolution_minutes
           <= momentum_history_window_minutes + price_resolution_minutes

\* C15 happens: both histories have dropped their first points, and each
\* still holds the point that is exactly as old as its window allows.
OldPointsDropped ==
    /\ price_history # <<>>
    /\ momentum_history # <<>>
    /\ price_history[1].timestamp
           = now - (momentum_history_window_minutes + momentum_lookback_window_minutes)
    /\ price_history[1].timestamp > 2 * price_resolution_minutes
    /\ momentum_history[1].timestamp = now - momentum_history_window_minutes

\* The retained price points the momentum of the latest observation may
\* start from: those in [now - lookback window, now).
InLookback == {i \in DOMAIN price_history :
                  /\ now - momentum_lookback_window_minutes <= price_history[i].timestamp
                  /\ price_history[i].timestamp < now}

\* C16: the momentum of an observation (price, now) is
\* ((price - p0) / p0 x 100) / elapsed minutes for p0 the earliest retained
\* point in [now - lookback window, now), and 0 when there is no such
\* point; over a history of one constant price it is exactly 0.
MomentumFromEarliestPoint ==
    price_history # <<>> =>
        /\ IF InLookback = {}
           THEN current_momentum = [num |-> 0, den |-> 1]
           ELSE LET first == CHOOSE i \in InLookback :
                                \A j \in InLookback :
                                    price_history[i].timestamp <= price_history[j].timestamp
                    p0 == price_history[first].price
                    elapsed == now - price_history[first].timestamp
                IN  /\ elapsed > 0
                    /\ current_momentum.den > 0
                    /\ current_momentum.num * (p0 * elapsed)
                           = (current_price - p0) * 100 * current_momentum.den
        /\ (\A i \in DOMAIN price_history : price_history[i].price = current_price)
               => current_momentum.num = 0

\* C16 happens: 100 was observed, 100 again five minutes later and 101
\* ten minutes after the first: the momentum is 1/10 percent per minute,
\* measured from the first point and not from the second.
TenthOfPercentPerMinute ==
    /\ Len(price_history) >= 3
    /\ LET n == Len(price_history)
       IN  /\ price_history[n] = [timestamp |-> now, price |-> 101]
           /\ price_history[n - 1] = [timestamp |-> now - 5, price |-> 100]
           /\ price_history[n - 2] = [timestamp |-> now - 10, price |-> 100]
    /\ current_momentum = [num |-> 1, den |-> 10]

\* C17: when the samples the detector evaluated for an observation (the
\* momentum history inside the history window and the candidate, which
\* together are the momentum history after the observation) number fewer
\* than history window / resolution - 1, the observation is not extreme.
FewSamplesNeverExtreme ==
    (Len(momentum_history) * price_resolution_minutes
         < momentum_history_window_minutes - price_resolution_minutes)
        => ~is_extreme

\* C17 happens: after two observations of one price a third shows a move;
\* its momentum stands apart from the two before it and the three samples
\* are too few for the detector to say so.
MoveAmongFewSamples ==
    /\ Len(momentum_history) = 3
    /\ momentum_history[1].momentum.num = 0
    /\ momentum_history[2].momentum.num = 0
    /\ momentum_history[3].momentum.num # 0
    /\ OutsideBand([i \in 1..3 |-> momentum_history[i].momentum])
    /\ ~is_extreme

\* C18: an observation judged against a momentum history of all-equal
\* values is extreme only when its momentum is more than 0.01 away from
\* that value: a candidate within 0.01 of the flat series is not flagged.
FlatSeriesFlagsOnlyBeyondBand ==
    LET n == Len(momentum_history)
        flat == momentum_history[1].momentum
        candidate == momentum_history[n].momentum
        apart == candidate.num * flat.den - flat.num * candidate.den
    IN  (/\ n >= 2
         /\ \A i \in 1..(n - 1) : momentum_history[i].momentum = flat
         /\ is_extreme)
            => 100 * Abs(apart) > candidate.den * flat.den

\* Both sides were reconciled as FILLED in the cycle, each with the fill
\* time the exchange reported for it, one later than the other.
BothFilledApart ==
    /\ buy_result.order_status = "FILLED"
    /\ buy_result.executed_order_id # 0
    /\ sell_result.order_status = "FILLED"
    /\ sell_result.executed_order_id # 0
    /\ buy_result.fill_time_ms # DefaultFillTime
    /\ sell_result.fill_time_ms # DefaultFillTime
    /\ buy_result.fill_time_ms # sell_result.fill_time_ms

LaterSide ==
    IF buy_result.fill_time_ms > sell_result.fill_time_ms THEN "buy" ELSE "sell"

\* What a turn of the loop over the two results does when they are taken
\* in ascending order of fill time: the earlier one first, last_price
\* from the result taken, and after the later one its side at
\* min(2, max_order_size_multiplier) x order_start_size and the other side
\* at order_start_size.
TakenInFillTimeOrder ==
    /\ Head(orders) = IF Len(orders) = 1 THEN LaterSide
                      ELSE IF LaterSide = "buy" THEN "sell" ELSE "buy"
    /\ last_price' = HeadOrder.executed_price
    /\ Len(orders) = 1 =>
           /\ LaterSide = "buy" =>
                  /\ buy_size_btc' = Min(2, max_order_size_multiplier) * order_start_size
                  /\ sell_size_btc' = order_start_size
           /\ LaterSide = "sell" =>
                  /\ sell_size_btc' = Min(2, max_order_size_multiplier) * order_start_size
                  /\ buy_size_btc' = order_start_size

RecoveryReanchorsAndClosesAll ==
    [][(/\ pc = "limits"
        /\ pc' = "sleep"
        /\ \/ SellLimitHit(sell_order_id, last_price)
           \/ BuyLimitHit(buy_order_id, last_price))
          => (/\ last_price' = current_price
              /\ exchange_orders' = {}
              /\ buy_order_id' = 0
              /\ sell_order_id' = 0)]_vars

\* C21: the recovery check runs in every cycle that reaches DECIDE, whatever
\* the results of the reconcile and whether or not momentum is extreme: a
\* side that entered the cycle with the sentinel (its reconcile result is
\* NOT_ENOUGH_BALANCE), with the price past price_movement_threshold from
\* last_price in the direction that resolves it, has last_price set to the
\* current price by the check of that cycle.
SentinelSideReanchoredEveryCycle ==
    [][(/\ pc = "limits"
        /\ pc' = "sleep"
        /\ \/ /\ sell_result.order_status = "NOT_ENOUGH_BALANCE"
              /\ current_price * Scale > last_price * (Scale + price_movement_threshold)
           \/ /\ buy_result.order_status = "NOT_ENOUGH_BALANCE"
              /\ current_price * Scale < last_price * (Scale - price_movement_threshold))
          => (last_price' = current_price)]_vars

\* The gateway and file calls a cycle has made that close or place orders.
ClosesAndPlacements ==
    {i \in DOMAIN calls : calls[i] \in {"close", "place_sell", "place_buy"}}

\* A cycle whose reconcile found the sentinel on a side and nothing
\* executed on the other, with momentum not extreme.
SentinelAloneInCycle ==
    /\ "NOT_ENOUGH_BALANCE" \in {buy_result.order_status, sell_result.order_status}
    /\ buy_result.order_status \in {"NOT_ENOUGH_BALANCE", "WAITING"}
    /\ sell_result.order_status \in {"NOT_ENOUGH_BALANCE", "WAITING"}
    /\ ~is_extreme

\* C22: reconciling a side whose stored id is the sentinel makes no gateway
\* call, touches neither the wallet nor params.json and reports
\* NOT_ENOUGH_BALANCE; such a result is never among the results applied,
\* and a cycle in which it stands alone (the other side waiting or also on
\* the sentinel, momentum not extreme) reaches the recovery check with no
\* close and no placement made and with the ids, the sizes and last_price
\* it started with.
SentinelShortCircuitsReconcile ==
    /\ [][(pc = "reconcile_buy" /\ pc' = "reconcile_sell"
              /\ buy_order_id = NOT_ENOUGH_BALANCE)
          => (/\ buy_result'.order_status = "NOT_ENOUGH_BALANCE"
              /\ calls' = calls
              /\ UNCHANGED <<botVars, walletVars, exchVars, fileVars>>)]_vars
    /\ [][(pc = "reconcile_sell" /\ pc' = "apply"
              /\ sell_order_id = NOT_ENOUGH_BALANCE)
          => (/\ sell_result'.order_status = "NOT_ENOUGH_BALANCE"
              /\ calls' = calls
              /\ UNCHANGED <<botVars, walletVars, exchVars, fileVars>>)]_vars
    /\ [](/\ ("buy" \in {orders[i] : i \in DOMAIN orders})
                => buy_result.order_status # "NOT_ENOUGH_BALANCE"
          /\ ("sell" \in {orders[i] : i \in DOMAIN orders})
                => sell_result.order_status # "NOT_ENOUGH_BALANCE")
    /\ [][(pc = "apply" /\ pc' \in LoopPcs /\ SentinelAloneInCycle)
          => (/\ pc' = "limits"
              /\ ClosesAndPlacements' = {}
              /\ UNCHANGED <<botVars, walletVars, exchVars, fileVars>>)]_vars

\* C22 happens: the buy side entered the cycle with the sentinel, the sell
\* order was asked about and waits, and the cycle stands before the
\* recovery check with that one status call made.
SentinelReportedNothingDone ==
    /\ pc = "limits"
    /\ buy_result.order_status = "NOT_ENOUGH_BALANCE"
    /\ sell_result.order_status = "WAITING"
    /\ ~is_extreme
    /\ calls = <<"status">>
    /\ buy_order_id = NOT_ENOUGH_BALANCE
    /\ sell_order_id > 0

\* The orders the exchange accepted in a step, by side.
Accepted(side) == {o \in exchange_orders' \ exchange_orders : o.side = side}

\* The calls a step added to those of the cycle.
NewCalls == {calls'[i] : i \in (Len(calls) + 1)..Len(calls')}

\* C23: in a placement step place_order is called for a side exactly when
\* the ledger approved a non-zero size for it, whatever happened on the
\* other side; the id stored for a side is the id of the order the exchange
\* accepted for it in that step, and the sentinel when the size was refused
\* or the placement failed.
PlacementStoresIdOrSentinel ==
    [][(pc = "place" /\ pc' = "limits")
          => LET sell_size == CheckOrderSize(SellPrice(current_price), sell_size_btc, "sell")
                 buy_size == CheckOrderSize(BuyPrice(current_price), buy_size_btc, "buy")
             IN  /\ ("place_sell" \in NewCalls) <=> (sell_size > 0)
                 /\ ("place_buy" \in NewCalls) <=> (buy_size > 0)
                 /\ (sell_size = 0) => (Accepted("sell") = {})
                 /\ (buy_size = 0) => (Accepted("buy") = {})
                 /\ Cardinality(Accepted("sell")) <= 1
                 /\ Cardinality(Accepted("buy")) <= 1
                 /\ \A o \in Accepted("sell") :
                        o.id >= next_order_id /\ sell_order_id' = o.id
                 /\ \A o \in Accepted("buy") :
                        o.id >= next_order_id /\ buy_order_id' = o.id
                 /\ (Accepted("sell") = {}) => (sell_order_id' = NOT_ENOUGH_BALANCE)
                 /\ (Accepted("buy") = {}) => (buy_order_id' = NOT_ENOUGH_BALANCE)]_vars

\* C23 happens: both sides were approved and asked for, the exchange
\* accepted the buy and not the sell: the sell side holds the sentinel and
\* the buy side the id of its resting order.
SellFailedBuyPlaced ==
    /\ pc = "limits"
    /\ Len(calls) >= 2
    /\ calls[Len(calls) - 1] = "place_sell"
    /\ calls[Len(calls)] = "place_buy"
    /\ sell_order_id = NOT_ENOUGH_BALANCE
    /\ buy_order_id > 0
    /\ \E o \in exchange_orders : o.id = buy_order_id /\ o.side = "buy"

\* _set_new_orders lines 243 and 257: the current price less, or plus,
\* price_adjustment_offset, in cents.
LittleBelow(current) == RoundDiv(current * (Scale - price_adjustment_offset), Scale)
LittleAbove(current) == RoundDiv(current * (Scale + price_adjustment_offset), Scale)

\* C24: every sell order the exchange accepts in a placement step carries
\* the price max(last_price x (1 + price_movement_threshold),
\* current_price x (1 - price_adjustment_offset)), in cents, and so is
\* never priced below current_price x (1 - price_adjustment_offset).
SellPricedAtClampedTarget ==
    [][(pc = "place" /\ pc' = "limits")
          => \A o \in Accepted("sell") :
                /\ o.px = Max(RoundDiv(last_price * (Scale + price_movement_threshold),
                                       Scale),
                              LittleBelow(current_price))
                /\ o.px >= LittleBelow(current_price)]_vars

\* C25: every buy order the exchange accepts in a placement step carries
\* the price min(last_price x (1 - price_movement_threshold),
\* current_price x (1 + price_adjustment_offset)), in cents, and so is
\* never priced above current_price x (1 + price_adjustment_offset).
BuyPricedAtClampedTarget ==
    [][(pc = "place" /\ pc' = "limits")
          => \A o \in Accepted("buy") :
                /\ o.px = Min(RoundDiv(last_price * (Scale - price_movement_threshold),
                                       Scale),
                              LittleAbove(current_price))
                /\ o.px <= LittleAbove(current_price)]_vars

\* C25 happens: the price fell below the anchor's buy target, and the buy
\* order rests at the current price plus the offset instead of at the
\* target.
BuyClampedToCurrent ==
    /\ pc = "limits"
    /\ LittleAbove(current_price)
           < RoundDiv(last_price * (Scale - price_movement_threshold), Scale)
    /\ \E o \in exchange_orders :
          /\ o.id = buy_order_id
          /\ o.side = "buy"
          /\ o.px = LittleAbove(current_price)

\* A cycle in which a side was reconciled as FILLED or CANCELED and
\* momentum is not extreme, after its placement and before its recovery
\* check.
ExecutedCalmCycleBeforeCheck ==
    /\ pc = "limits"
    /\ Executed(buy_result) \/ Executed(sell_result)
    /\ ~is_extreme

\* The id of a side is that of an order resting on that side at price px,
\* or the sentinel.
FreshOrSentinel(id, side, px) ==
    \/ id = NOT_ENOUGH_BALANCE
    \/ /\ id > 0
       /\ [id |-> id, side |-> side, px |-> px] \in exchange_orders

\* What C26 says of the ids and the calls, apart from what rests.
ClosedThenPlacedFresh ==
    /\ \E i \in DOMAIN calls :
          /\ calls[i] = "close"
          /\ \A j \in DOMAIN calls :
                calls[j] \in {"place_sell", "place_buy"} => i < j
    /\ FreshOrSentinel(sell_order_id, "sell", SellPrice(current_price))
    /\ FreshOrSentinel(buy_order_id, "buy", BuyPrice(current_price))
    /\ sell_order_id # 0
    /\ buy_order_id # 0

\* C26: in a cycle where a side was reconciled as FILLED or CANCELED and
\* momentum is not extreme, the close comes before any placement and
\* leaves no earlier order resting, and before the recovery check each
\* side holds the id of a fresh order priced from last_price as the fills
\* of the cycle left it, or the sentinel, never 0.
ExecutedCycleClosesThenPlacesPair ==
    ExecutedCalmCycleBeforeCheck
        => /\ ClosedThenPlacedFresh
           /\ \A o \in exchange_orders : o.id \in {sell_order_id, buy_order_id}

\* The order states OKXClient.check_order_status may hand to
\* _check_order_status: those of the exchange (live, partially_filled,
\* filled, canceled, mmp_canceled) and its own "failed".
GatewayStates == {"live", "partially_filled", "filled", "canceled", "mmp_canceled", "failed"}

\* Both sides were asked about and wait, and momentum is not extreme.
BothWaitingCalm ==
    /\ buy_result.order_status = "WAITING"
    /\ sell_result.order_status = "WAITING"
    /\ ~is_extreme

\* C27: reconcile turns the gateway states filled and partially_filled
\* into FILLED, canceled and failed into CANCELED and every other state
\* into WAITING; a reconcile that answers WAITING makes its status call and
\* changes nothing, and a cycle in which both sides wait and momentum is
\* not extreme goes on to the sleep with no close and no placement called
\* and with the ids, the sizes, last_price, the wallet, the book and
\* params.json as they were.
WaitingCycleChangesNothing ==
    /\ [](\A state \in GatewayStates :
             OrderStatusOf(state) =
                 IF state \in {"filled", "partially_filled"} THEN "FILLED"
                 ELSE IF state \in {"canceled", "failed"} THEN "CANCELED"
                 ELSE "WAITING")
    /\ [][(pc = "reconcile_buy" /\ pc' = "reconcile_sell"
              /\ buy_result'.order_status = "WAITING")
          => (/\ calls' = Append(calls, "status")
              /\ UNCHANGED <<botVars, walletVars, exchVars, fileVars>>)]_vars
    /\ [][(pc = "reconcile_sell" /\ pc' = "apply"
              /\ sell_result'.order_status = "WAITING")
          => (/\ calls' = Append(calls, "status")
              /\ UNCHANGED <<botVars, walletVars, exchVars, fileVars>>)]_vars
    /\ [][(pc \in {"apply", "limits"} /\ pc' \in LoopPcs /\ BothWaitingCalm)
          => (/\ pc' = IF pc = "apply" THEN "limits" ELSE "sleep"
              /\ calls' = calls
              /\ UNCHANGED <<botVars, walletVars, exchVars, fileVars>>)]_vars

\* C27 happens: a pair rests, both orders were asked about and wait, and
\* the cycle has reached its sleep with the two status calls and nothing
\* else made.
BothWaitedCycleDone ==
    /\ pc = "sleep"
    /\ BothWaitingCalm
    /\ calls = <<"status", "status">>
    /\ \E o \in exchange_orders : o.id = buy_order_id /\ o.side = "buy"
    /\ \E o \in exchange_orders : o.id = sell_order_id /\ o.side = "sell"

\* C28: a cycle whose fetch brings no price, or a price the validation
\* rejects, ends there: the step leaves both histories, the ids, the
\* sizes, last_price, the wallet, the book and params.json as they were,
\* makes no call for an order, and leads back to the fetch after the short
\* delay, which is shorter than the cadence sleep; a step that goes on to
\* the reconcile carries a price the validation accepts.
FailedFetchSkipsCycle ==
    [][(pc = "fetch")
          => \/ /\ pc' = "reconcile_buy"
                /\ IsValidPrice(current_price')
                /\ now' = now
             \/ /\ pc' = "fetch"
                /\ now' = now + short_delay
                /\ short_delay < price_resolution_minutes
                /\ UNCHANGED <<price_history, momentum_history, current_momentum,
                               botVars, walletVars, exchVars, fileVars, calls,
                               buy_result, sell_result, orders>>]_vars

\* C28 happens: a price was observed, the cycle ran to its cadence sleep,
\* and the next fetch failed: the clock stands one short delay after the
\* sleep and the histories end at the observation before it.
RetriedAfterShortDelay ==
    /\ pc = "fetch"
    /\ price_history # <<>>
    /\ momentum_history # <<>>
    /\ now = price_history[Len(price_history)].timestamp
                 + price_resolution_minutes + short_delay
    /\ momentum_history[Len(momentum_history)].timestamp
           = price_history[Len(price_history)].timestamp

\* C29: at the fetch, a price the ticker answers is carried on into the
\* cycle exactly when |price - last_price| / last_price is at most
\* price_validation_threshold; a deviation above it is rejected, a
\* deviation equal to it is accepted.
PriceRejectedOnlyAboveThreshold ==
    pc = "fetch" =>
        \A price \in FetchPrices :
            (ENABLED (FetchObserve /\ pc' = "reconcile_buy" /\ current_price' = price))
                <=> (Abs(price - last_price) * Scale
                         <= last_price * price_validation_threshold)

\* C30: in a running bot the commission rate both affordability checks
\* use is the rate of the order type the wallet was constructed with, the
\* maker rate for MAKER and the taker rate for TAKER: check_order_size
\* refuses a buy exactly when the quote balance is below
\* size x price x (1 + that rate) and a sell exactly when the base balance
\* is below size x (1 + that rate).
CommissionRateOfOrderType ==
    pc \in LoopPcs =>
        /\ commission_rate = RateOf(order_type)
        /\ \A price \in RequestedPrices, size \in RequestedSizes :
              /\ CheckOrderSize(price, size, "buy") = 0
                    <=> current_usdt * Scale
                            < size * price * (Scale + RateOf(order_type))
              /\ CheckOrderSize(price, size, "sell") = 0
                    <=> current_btc * Scale < size * (Scale + RateOf(order_type))

\* C31: at every cycle boundary (the cadence sleep of line 218, and the head
\* of the loop the sleep or a skipped cycle returns to) the buy id and the
\* sell id are both 0 or both non-zero, each non-zero id being a gateway id
\* or the insufficient-balance sentinel: no side is tracked while the other
\* side's id is 0.
OrderIdsPairedAtCycleBoundary ==
    pc \in {"sleep", "fetch"} =>
        /\ (buy_order_id = 0) <=> (sell_order_id = 0)
        /\ buy_order_id = NOT_ENOUGH_BALANCE \/ buy_order_id >= 0
        /\ sell_order_id = NOT_ENOUGH_BALANCE \/ sell_order_id >= 0

\* A cycle ended with the sell order resting and the buy side on the
\* sentinel.
SellTrackedBuyOnSentinelAtSleep ==
    /\ pc = "sleep"
    /\ sell_order_id > 0
    /\ sell_order_id \in PendingIds(exchange_orders)
    /\ buy_order_id = NOT_ENOUGH_BALANCE

\* C32: whenever the bot exists (constructed or anywhere in its loop)
\* neither base size is below order_start_size and at least one of the two
\* equals order_start_size: the two sides are never escalated together,
\* also after a cycle in which both sides filled.
NeverBothSidesEscalated ==
    pc \in LoopPcs \cup {"constructed"} =>
        /\ buy_size_btc >= order_start_size
        /\ sell_size_btc >= order_start_size
        /\ buy_size_btc = order_start_size \/ sell_size_btc = order_start_size

\* A cycle in which both sides filled has ended, the sell applied last:
\* the sell side is escalated and the buy side, escalated before the
\* cycle, is back at the start size.
BothFilledCycleEnded ==
    /\ pc = "sleep"
    /\ buy_result.order_status = "FILLED"
    /\ sell_result.order_status = "FILLED"
    /\ buy_result.fill_time_ms < sell_result.fill_time_ms
    /\ sell_size_btc > order_start_size
    /\ buy_size_btc = order_start_size

\* The results of a cycle whose two stored ids were 0 at its reconcile:
\* _check_order_status answers CANCELED with no side for id 0 only.
StartedWithNoIds ==
    /\ pc \in {"apply", "place", "limits", "sleep"}
    /\ buy_result = Result("CANCELED", 0, 0, "", DefaultFillTime)
    /\ sell_result = Result("CANCELED", 0, 0, "", DefaultFillTime)

\* The recovery check of the cycle closed the orders and re-anchored
\* last_price: a close after the first call of the cycle.
ReanchorFired ==
    /\ last_price = current_price
    /\ \E i \in 2..Len(calls) : calls[i] = "close"

\* C33: a cycle that starts with both ids 0 reconciles both sides as
\* CANCELED with no gateway status call; with a validated price and no
\* extreme momentum it goes through the close to the placement, which
\* leaves no id at 0, so at the end of the completed cycle both ids are 0
\* only if momentum was extreme or the insufficient-balance re-anchor fired
\* in that cycle.
NoIdsCyclePlacesUnlessExtreme ==
    StartedWithNoIds =>
        /\ \A i \in 1..Len(calls) : calls[i] \notin {"status", "save"}
        /\ (pc \in {"place", "limits", "sleep"}) => (calls # <<>> /\ calls[1] = "close")
        /\ (pc = "place") => ~is_extreme
        /\ (pc = "limits" /\ ~is_extreme) => (buy_order_id # 0 /\ sell_order_id # 0)
        /\ (pc = "sleep" /\ buy_order_id = 0 /\ sell_order_id = 0)
               => (is_extreme \/ ReanchorFired)
        /\ (pc = "sleep" /\ (buy_order_id # 0 \/ sell_order_id # 0))
               => (~is_extreme /\ buy_order_id # 0 /\ sell_order_id # 0)

\* A calm cycle that started with no ids ended with no ids again: the sell
\* side could not be afforded and the recovery check re-anchored.
NoIdsCycleReanchored ==
    /\ StartedWithNoIds
    /\ pc = "sleep"
    /\ ~is_extreme
    /\ buy_order_id = 0
    /\ sell_order_id = 0
    /\ ReanchorFired

\* C34: whatever prices the validation accepts, the momentum computation
\* never divides by a start price of 0, so no accepted price ends the loop.
AcceptedPricesNeverCrashLoop == pc # "crashed"

\* C35: while last_price is 0 the validation rejects every fetched price:
\* each turn of the loop ends at the short delay and starts over, so the
\* bot never reaches the reconcile, never places an order and never
\* changes last_price, its ids, its sizes, its histories or params.json.
NoAnchorRejectsEveryPrice ==
    /\ [](pc \in LoopPcs /\ last_price = 0
             => /\ pc = "fetch"
                /\ exchange_orders = {}
                /\ next_order_id = 1
                /\ price_history = <<>>)
    /\ [][(pc = "fetch" /\ last_price = 0)
          => (/\ pc' = "fetch"
              /\ now' = now + short_delay
              /\ UNCHANGED <<botVars, walletVars, cycleVars, exchVars, fileVars,
                             price_history, momentum_history, current_momentum>>)]_vars

\* The bot without an anchor has retried its fetch three times.
NoAnchorRetriedThrice ==
    /\ pc = "fetch"
    /\ last_price = 0
    /\ now = 3 * short_delay

\* The status request for the resting order of `side` failed at the
\* transport in this cycle: the side was reconciled as CANCELED by a
\* gateway answer while the exchange still lists its order (a canceled
\* order is listed no longer).
StatusFailedOnLive(side) ==
    LET r == IF side = "buy" THEN buy_result ELSE sell_result
        id == IF side = "buy" THEN buy_order_id ELSE sell_order_id
    IN  /\ pc = "apply"
        /\ r.order_status = "CANCELED"
        /\ r.executed_side = side
        /\ id \in PendingIds(exchange_orders)

\* C36: when the status request for a live order fails at the transport,
\* the side is reconciled as CANCELED; applying that result changes no
\* size and not last_price; the decision of the cycle closes all orders on
\* both sides (nothing rests after it), clears both ids and goes on to the
\* placement unless momentum is extreme; and an id the bot stores later is
\* a fresh one, so the dropped id is never reconciled again.
FailedStatusClosesAndReplaces ==
    /\ [][(/\ pc = "apply"
           /\ StatusFailedOnLive("buy") \/ StatusFailedOnLive("sell")
           /\ pc' \in LoopPcs)
          => IF orders # <<>>
             THEN (HeadOrder.order_status = "CANCELED")
                      => UNCHANGED <<last_price, buy_size_btc, sell_size_btc>>
             ELSE /\ calls' = Append(calls, "close")
                  /\ exchange_orders' = {}
                  /\ buy_order_id' = 0
                  /\ sell_order_id' = 0
                  /\ pc' = IF is_extreme THEN "limits" ELSE "place"
                  /\ UNCHANGED <<last_price, buy_size_btc, sell_size_btc>>]_vars
    /\ [][(pc = "place")
          => (/\ sell_order_id' > 0 => sell_order_id' >= next_order_id
              /\ buy_order_id' > 0 => buy_order_id' >= next_order_id)]_vars

====
